---- MODULE Spec2Model ----
(***************************************************************************)
(* Model of obs-router/server.mjs: a poller that reads a key/value CSV,    *)
(* commits a changed value after REQUIRE_STABLE_READS identical reads, and *)
(* broadcasts committed changes to the open WebSocket clients.             *)
(*                                                                         *)
(* JavaScript runs every callback to completion, so each handler is one    *)
(* action.  loop() suspends only inside pollOnce() (the fetch, res.text()  *)
(* and the return of the async function), before it touches state or      *)
(* candidate: it is the two actions LoopStart (up to the suspension) and   *)
(* PollOk / PollFail (from the suspension to the end of finally).          *)
(*                                                                         *)
(* A JavaScript object is a function whose DOMAIN is its set of own keys.  *)
(* Timestamps (nowIso) are left out of the messages.                       *)
(***************************************************************************)
EXTENDS Integers, Sequences, FiniteSets, TLC

\* ---- bounds of the model ----
\* REQUIRE_STABLE_READS is configuration (server.mjs:16-18): 1..MaxT
MaxT == 2

Keys == {"a", "b"}
Values == {"", "x", "1"}
Clients == {"c1", "c2"}

\* the value of a missing property
Undefined == "<undefined>"

VARIABLES
    REQUIRE_STABLE_READS, \* the configured threshold T
    state,                \* last committed state
    candidate,            \* { key: { value, count } }
    lastFetchOkAt,        \* "null" or "ts"
    listening,            \* server.listen's callback has run
    timers,               \* pending setTimeout(loop, POLL_MS) callbacks
    inflight,             \* calls of loop() suspended in await pollOnce()
    clients,              \* per client: "none", "open" or "closing"
    sent,                 \* history: messages delivered by the last step, per client
    bcast,                \* history: messages handed to broadcast() by the last step
    last,                 \* history: the last step, and what it did with watch
    snapshots,            \* history: snapshot messages received per connection
    slots,                \* the clients that connect in this behaviour
    watch,                \* history: the key that last, run and track follow, if any
    probe,                \* history: which of the histories this behaviour records
    run,                  \* history: the current run of equal decoded observations of watch
    track,                \* history: progress of a candidacy of watch started from no candidate
    lastCycle,            \* history: how the most recent finished cycle ended
    before,               \* history: the snapshot sent just before the last poll step
    http,                 \* history: the request and the response of the last HTTP handler
    alt,                  \* history: the current alternation of the observations of watch
    gap,                  \* history: a candidacy of watch that cycles without watch do not end
    view                  \* history: the mapping Subscriber holds (its snapshot, then its patches)

vars == <<REQUIRE_STABLE_READS, state, candidate, lastFetchOkAt, listening, timers,
          inflight, clients, sent, bcast, last, snapshots, slots, watch, probe, run, track, lastCycle,
          before, http, alt, gap, view>>

\* ---- JavaScript objects ----
EmptyObj == [k \in {} |-> Undefined]
Get(obj, k) == IF k \in DOMAIN obj THEN obj[k] ELSE Undefined
Put(obj, k, v) == [x \in (DOMAIN obj) \cup {k} |-> IF x = k THEN v ELSE obj[x]]
Del(obj, k) == [x \in (DOMAIN obj) \ {k} |-> obj[x]]

\* state, candidate, out and changes are plain objects ({}): "__proto__" is not an
\* own key but the accessor of Object.prototype.  Reading it gives the prototype;
\* assigning a string to it does nothing.
ProtoKey == "__proto__"
ObjectPrototype == "<Object.prototype>"
Read(obj, k) == IF k = ProtoKey THEN ObjectPrototype ELSE Get(obj, k)
Assign(obj, k, v) == IF k = ProtoKey THEN obj ELSE Put(obj, k, v)

\* ---- parseCsvKeyValue ----
\* A cell of the CSV as fetched, and what .replace(/^"|"$/g, "").trim() makes of it.
RawCells == {"", "x", "1", " x ", "\"1\""}
StripCell(cell) ==
    CASE cell = " x " -> "x"
      [] cell = "\"1\"" -> "1"
      [] OTHER -> cell

\* A line after the header: with a comma (key cell, value cell) or without one.
Rows == [comma : {TRUE}, k : Keys \cup {"", ProtoKey}, v : RawCells]
            \cup {[comma |-> FALSE, k |-> "", v |-> ""]}

RECURSIVE parseRows(_, _, _)
parseRows(lines, i, out) ==
    IF i > Len(lines) THEN out
    ELSE LET line == lines[i]
             k == StripCell(line.k)
             v == StripCell(line.v)
         IN IF ~line.comma THEN parseRows(lines, i + 1, out)
            ELSE IF k # "" THEN parseRows(lines, i + 1, Assign(out, k, v))
            ELSE parseRows(lines, i + 1, out)

parseCsvKeyValue(text) == parseRows(text, 1, EmptyObj)

\* The texts a fetch may return (the lines after the header), and their decodings.
Texts == {<<>>} \cup {<<r>> : r \in Rows} \cup {<<r, s>> : r, s \in Rows}
Decoded == {parseCsvKeyValue(text) : text \in Texts}

\* (raw ?? "").trim() on a decoded value
TrimRaw(raw) == IF raw = Undefined THEN "" ELSE StripCell(raw)

\* ---- messages ----
\* variant: the snapshot does not carry state
SnapshotMsgEmpty(st) == [op |-> "snapshot", body |-> EmptyObj]
SnapshotMsg(st) == [op |-> "snapshot", body |-> st]
PatchMsg(changes) == [op |-> "patch", body |-> changes]

\* broadcast(msgObj): one send to every client of wss.clients that is OPEN
\* variant: without the test of readyState
broadcastToAll(msgs) == [c \in Clients |-> IF clients[c] # "none" THEN msgs ELSE <<>>]
broadcast(msgs) == [c \in Clients |-> IF clients[c] = "open" THEN msgs ELSE <<>>]

NoSend == [c \in Clients |-> <<>>]

CountSnapshots(msgs) == Cardinality({i \in DOMAIN msgs : msgs[i].op = "snapshot"})

\* ---- commitChange ----
\* variant: the commit writes nothing
commitNothing(st, key, value) == [state |-> st, changed |-> FALSE]
commitChange(st, key, value) ==
    IF Get(st, key) = value
    THEN [state |-> st, changed |-> FALSE]
    ELSE [state |-> Put(st, key, value), changed |-> TRUE]

\* ---- loop: the body of the for loop for one entry of kv ----
\* lines 161-166: the candidate entry of key after the stability logic
\* variants: the count is never increased; the count survives a change of value
StagedNeverCounts(cand, key, next) == [value |-> next, count |-> 1]
StagedKeepsCount(cand, key, next) ==
    IF key \notin DOMAIN cand
    THEN [value |-> next, count |-> 1]
    ELSE [value |-> next, count |-> cand[key].count + 1]
Staged(cand, key, next) ==
    IF key \notin DOMAIN cand \/ cand[key].value # next
    THEN [value |-> next, count |-> 1]
    ELSE [value |-> next, count |-> cand[key].count + 1]

\* line 168
\* variant: the threshold test off by one
IsStableOneEarly(count, T) == count + 1 >= T
\* variant: the threshold test late by one
IsStableOneLate(count, T) == count > T
IsStable(count, T) == count >= T

\* variant: without the test current === next
LoopBodyAlwaysStages(r, key, raw, T) ==
    LET next == TrimRaw(raw)
        entry == Staged(r.candidate, key, next)
        staged == Put(r.staged, key, entry)
    IN IF IsStable(entry.count, T)
       THEN LET c == commitChange(r.state, key, next)
            IN [state |-> c.state,
                candidate |-> Del(r.candidate, key),
                changes |-> IF c.changed THEN Put(r.changes, key, next) ELSE r.changes,
                staged |-> staged]
       ELSE [r EXCEPT !.candidate = Put(r.candidate, key, entry), !.staged = staged]
\* variant: without delete candidate[key] when the committed value is observed
LoopBodyKeepsCandidate(r, key, raw, T) ==
    LET next == TrimRaw(raw)
        current == Get(r.state, key)
    IN IF current = next
       THEN r
       ELSE LET entry == Staged(r.candidate, key, next)
                staged == Put(r.staged, key, entry)
            IN IF IsStable(entry.count, T)
               THEN LET c == commitChange(r.state, key, next)
                    IN [state |-> c.state,
                        candidate |-> Del(r.candidate, key),
                        changes |-> IF c.changed THEN Put(r.changes, key, next)
                                    ELSE r.changes,
                        staged |-> staged]
               ELSE [r EXCEPT !.candidate = Put(r.candidate, key, entry),
                              !.staged = staged]
\* variant: a key that State does not have reads as the empty string
LoopBodyAbsentIsEmpty(r, key, raw, T) ==
    LET next == TrimRaw(raw)
        current == IF key \in DOMAIN r.state THEN r.state[key] ELSE ""
    IN IF current = next
       THEN [r EXCEPT !.candidate = Del(r.candidate, key)]
       ELSE LET entry == Staged(r.candidate, key, next)
                staged == Put(r.staged, key, entry)
            IN IF IsStable(entry.count, T)
               THEN LET c == commitChange(r.state, key, next)
                    IN [state |-> c.state,
                        candidate |-> Del(r.candidate, key),
                        changes |-> IF c.changed THEN Put(r.changes, key, next)
                                    ELSE r.changes,
                        staged |-> staged]
               ELSE [r EXCEPT !.candidate = Put(r.candidate, key, entry),
                              !.staged = staged]
\* The result also keeps, in staged, the entries that lines 161-166 assigned.
LoopBody(r, key, raw, T) ==
    LET next == TrimRaw(raw)
        current == Get(r.state, key)
    IN IF current = next
       THEN [r EXCEPT !.candidate = Del(r.candidate, key)]
       ELSE LET entry == Staged(r.candidate, key, next)
                staged == Put(r.staged, key, entry)
            IN IF IsStable(entry.count, T)
               THEN LET c == commitChange(r.state, key, next)
                    IN [state |-> c.state,
                        candidate |-> Del(r.candidate, key),
                        changes |-> IF c.changed THEN Put(r.changes, key, next)
                                    ELSE r.changes,
                        staged |-> staged]
               ELSE [r EXCEPT !.candidate = Put(r.candidate, key, entry),
                              !.staged = staged]

\* for (const [key, raw] of Object.entries(kv)): an iteration reads and writes
\* only state[key], candidate[key] and changes[key], so the order of the entries
\* does not matter.
RECURSIVE Reconcile(_, _, _, _)
Reconcile(r, kv, todo, T) ==
    IF todo = {} THEN r
    ELSE LET key == CHOOSE k \in todo : TRUE
         IN Reconcile(LoopBody(r, key, kv[key], T), kv, todo \ {key}, T)

\* variant: keys that are missing from the CSV are removed from state
CycleDropsMissingKeys(st, cand, kv, T) ==
    LET r == Reconcile([state |-> st, candidate |-> cand, changes |-> EmptyObj,
                        staged |-> EmptyObj], kv, DOMAIN kv, T)
    IN [r EXCEPT !.state = [k \in DOMAIN r.state \cap DOMAIN kv |-> r.state[k]]]
\* variant: the candidates of keys that are missing from the CSV are dropped
CycleDropsMissingCandidates(st, cand, kv, T) ==
    LET r == Reconcile([state |-> st, candidate |-> cand, changes |-> EmptyObj,
                        staged |-> EmptyObj], kv, DOMAIN kv, T)
    IN [r EXCEPT !.candidate = [k \in DOMAIN r.candidate \cap DOMAIN kv |-> r.candidate[k]]]
\* the try block of loop() after the await: const changes = {}; the for loop
CycleResult(st, cand, kv, T) ==
    Reconcile([state |-> st, candidate |-> cand, changes |-> EmptyObj, staged |-> EmptyObj],
              kv, DOMAIN kv, T)

\* if (Object.keys(changes).length > 0) broadcast({op: "patch", changes})
\* variant: the patch is broadcast even when changes is empty
PatchOfAlways(changes) == <<PatchMsg(changes)>>
PatchOf(changes) == IF DOMAIN changes # {} THEN <<PatchMsg(changes)>> ELSE <<>>

\* finally { setTimeout(loop, POLL_MS) }
\* variant: two timers per finished cycle
ScheduleTwice(t) == t + 2
ScheduleNext(t) == t + 1

\* ---- history variables ----
\* A behaviour records the histories one key at a time and one history at a time:
\* the histories do not act on the program, so every behaviour of the program
\* appears with each choice of watch and probe.
NoKey == "<no key>"
Probes == {"step", "run", "track", "cycle", "before", "http", "alt", "gap", "view"}

NoRun == [value |-> Undefined, n |-> 0]
NoCand == [value |-> Undefined, count |-> 0]
NoPoll == "<no poll>"
Min(a, b) == IF a < b THEN a ELSE b

\* last: the handler that ran; for a successful poll also the value decoded for
\* watch (Undefined: none) and, under the probes "step" and "cycle", the candidate
\* entry of watch before the step and the entry that lines 161-166 assigned to it
\* (NoCand: none).
Step(op) == [op |-> op, obs |-> NoPoll, cand |-> NoCand, staged |-> NoCand]
PollStep(kv, r) ==
    [op |-> "pollOk",
     obs |-> Get(kv, watch),
     cand |-> IF probe \in {"step", "cycle"} /\ watch \in DOMAIN candidate
              THEN candidate[watch] ELSE NoCand,
     staged |-> IF probe \in {"step", "cycle"} /\ watch \in DOMAIN r.staged
                THEN r.staged[watch] ELSE NoCand]

\* The run of watch: the value of its most recent decoded observations and how
\* many of them in a row had it (counted up to T).
RunAfter(kv, T) ==
    IF probe # "run" \/ watch \notin DOMAIN kv THEN run
    ELSE IF run.value = kv[watch] THEN [value |-> kv[watch], n |-> Min(run.n + 1, T)]
    ELSE [value |-> kv[watch], n |-> 1]

\* A tracked sequence starts with an observation v of watch in a state where
\* watch has no candidate and State[watch] # v; it goes on while every successful
\* cycle observes watch = v and stops at the T-th one; an override of watch ends it.
TrackAfter(kv, T) ==
    IF probe # "track" THEN track
    ELSE IF watch \notin DOMAIN kv THEN NoRun
    ELSE IF track.n \in 1..(T - 1) /\ track.value = kv[watch]
         THEN [value |-> kv[watch], n |-> track.n + 1]
    ELSE IF watch \notin DOMAIN candidate /\ Get(state, watch) # kv[watch]
         THEN [value |-> kv[watch], n |-> 1]
    ELSE NoRun

\* lastCycle: "none", "fail", "ok", or "okAfterFail" for a successful cycle that
\* follows a failed one
CycleEnd(how) ==
    IF probe # "cycle" THEN lastCycle
    ELSE IF how = "ok" /\ lastCycle = "fail" THEN "okAfterFail"
    ELSE how

\* before: for a successful poll that directly follows a connection (made while
\* the fetch was pending), the snapshot that connection sent, per client.
BeforePoll ==
    IF probe = "before" /\ last.op = "connect"
    THEN [c \in {x \in Clients : sent[x] # <<>>} |-> sent[c][1]]
    ELSE <<>>

\* http: the request an HTTP handler got and the response it gave (probe "http")
NoHttp == [path |-> "<none>", key |-> Undefined, value |-> Undefined, status |-> 0,
           body |-> [none |-> TRUE]]
Exchange(path, key, value, status, body) ==
    IF probe = "http"
    THEN [path |-> path, key |-> key, value |-> value, status |-> status, body |-> body]
    ELSE NoHttp

\* alt: the observations of watch that differ from State[watch] and from the
\* observation before them: a, the last one; b, the one before it; n, how many
\* observations the alternation a, b, a, b, ... has by now (counted up to AltCap).
\* A cycle without watch is no observation of watch.
AltCap == 2 * MaxT
NoAlt == [a |-> Undefined, b |-> Undefined, n |-> 0]
AltAfter(kv) ==
    IF probe # "alt" \/ watch \notin DOMAIN kv THEN alt
    ELSE LET o == kv[watch]
         IN IF o = Get(state, watch) THEN NoAlt
            ELSE IF alt.n >= 2 /\ o = alt.b /\ o # alt.a
                 THEN [a |-> o, b |-> alt.a, n |-> Min(alt.n + 1, AltCap)]
            ELSE IF alt.n >= 1 /\ o # alt.a
                 THEN [a |-> o, b |-> alt.a, n |-> 2]
            ELSE [a |-> o, b |-> Undefined, n |-> 1]

\* gap: as track, but a successful cycle without watch does not end the sequence:
\* it is counted in skipped (up to 1).
NoGap == [value |-> Undefined, n |-> 0, skipped |-> 0]
GapAfter(kv, T) ==
    IF probe # "gap" THEN gap
    ELSE IF watch \notin DOMAIN kv
         THEN IF gap.n \in 1..(T - 1) THEN [gap EXCEPT !.skipped = 1] ELSE NoGap
    ELSE IF gap.n \in 1..(T - 1) /\ gap.value = kv[watch]
         THEN [gap EXCEPT !.n = gap.n + 1]
    ELSE IF watch \notin DOMAIN candidate /\ Get(state, watch) # kv[watch]
         THEN [value |-> kv[watch], n |-> 1, skipped |-> 0]
    ELSE NoGap

\* view: what Subscriber makes of its messages: the state of the snapshot, then
\* every patch it receives applied in order, key by key.
Subscriber == "c1"
RECURSIVE Apply(_, _, _)
Apply(v, msgs, i) ==
    IF i > Len(msgs) THEN v
    ELSE LET m == msgs[i]
         IN Apply([k \in DOMAIN v \cup DOMAIN m.body |->
                      IF k \in DOMAIN m.body THEN m.body[k] ELSE v[k]], msgs, i + 1)
ViewAfter(delivered) ==
    IF probe = "view" THEN Apply(view, delivered[Subscriber], 1) ELSE view

\* ---- the state after construction ----
InitWith(watched, probed, connecting) ==
    /\ REQUIRE_STABLE_READS \in 1..MaxT
    /\ slots = connecting
    /\ watch \in watched
    /\ probe = probed
    /\ state = EmptyObj
    /\ candidate = EmptyObj
    /\ lastFetchOkAt = "null"
    /\ listening = FALSE
    /\ timers = 0
    /\ inflight = 0
    /\ clients = [c \in Clients |-> "none"]
    /\ sent = NoSend
    /\ bcast = <<>>
    /\ last = Step("init")
    /\ snapshots = [c \in Clients |-> 0]
    /\ run = NoRun
    /\ track = NoRun
    /\ lastCycle = "none"
    /\ before = <<>>
    /\ http = NoHttp
    /\ alt = NoAlt
    /\ gap = NoGap
    /\ view = EmptyObj

Received(delivered) == [c \in Clients |-> snapshots[c] + CountSnapshots(delivered[c])]

\* server.listen(PORT, () => { ...; loop(); }): loop() runs up to its await
Listen ==
    /\ ~listening
    /\ listening' = TRUE
    /\ inflight' = inflight + 1
    /\ sent' = NoSend /\ bcast' = <<>> /\ before' = <<>>
    /\ http' = NoHttp
    /\ UNCHANGED <<alt, gap, view>>
    /\ last' = Step("listen")
    /\ UNCHANGED <<REQUIRE_STABLE_READS, state, candidate, lastFetchOkAt, timers, clients,
                   snapshots, slots, watch, probe, run, track, lastCycle>>

\* a timer set by setTimeout(loop, POLL_MS) fires: loop() runs up to its await
\* variant: loop() resets candidate before the await
LoopStartClearsCandidates ==
    /\ timers > 0
    /\ timers' = timers - 1
    /\ inflight' = inflight + 1
    /\ candidate' = EmptyObj
    /\ sent' = NoSend /\ bcast' = <<>> /\ before' = <<>>
    /\ http' = NoHttp
    /\ UNCHANGED <<alt, gap, view>>
    /\ last' = Step("loopStart")
    /\ UNCHANGED <<REQUIRE_STABLE_READS, state, lastFetchOkAt, listening, clients,
                   snapshots, slots, watch, probe, run, track, lastCycle>>
LoopStart ==
    /\ timers > 0
    /\ timers' = timers - 1
    /\ inflight' = inflight + 1
    /\ sent' = NoSend /\ bcast' = <<>> /\ before' = <<>>
    /\ http' = NoHttp
    /\ UNCHANGED <<alt, gap, view>>
    /\ last' = Step("loopStart")
    /\ UNCHANGED <<REQUIRE_STABLE_READS, state, candidate, lastFetchOkAt, listening, clients,
                   snapshots, slots, watch, probe, run, track, lastCycle>>

\* pollOnce() returns kv: the rest of the try block, then finally
PollOk(kv) ==
    /\ inflight > 0
    /\ LET r == CycleResult(state, candidate, kv, REQUIRE_STABLE_READS)
           msgs == PatchOf(r.changes)
       IN /\ state' = r.state
          /\ candidate' = r.candidate
          /\ bcast' = msgs
          /\ sent' = broadcast(msgs)
          /\ snapshots' = Received(broadcast(msgs))
          /\ view' = ViewAfter(broadcast(msgs))
          /\ last' = PollStep(kv, r)
    /\ lastFetchOkAt' = "ts"
    /\ inflight' = inflight - 1
    /\ timers' = ScheduleNext(timers)
    /\ run' = RunAfter(kv, REQUIRE_STABLE_READS)
    /\ track' = TrackAfter(kv, REQUIRE_STABLE_READS)
    /\ lastCycle' = CycleEnd("ok")
    /\ before' = BeforePoll
    /\ http' = NoHttp
    /\ alt' = AltAfter(kv)
    /\ gap' = GapAfter(kv, REQUIRE_STABLE_READS)
    /\ UNCHANGED <<REQUIRE_STABLE_READS, listening, clients, slots, watch, probe>>

\* pollOnce() throws (fetch rejected, res.ok false, res.text() rejected): catch, then finally
FetchErrors == {"rejected", "notOk", "textRejected"}

\* variant: the catch block resets candidate
PollFailDropsCandidates(why) ==
    /\ inflight > 0
    /\ why \in FetchErrors
    /\ inflight' = inflight - 1
    /\ timers' = ScheduleNext(timers)
    /\ candidate' = EmptyObj
    /\ sent' = NoSend /\ bcast' = <<>> /\ before' = <<>>
    /\ http' = NoHttp
    /\ UNCHANGED <<alt, gap, view>>
    /\ last' = Step("pollFail")
    /\ lastCycle' = CycleEnd("fail")
    /\ UNCHANGED <<REQUIRE_STABLE_READS, state, lastFetchOkAt, listening, clients,
                   snapshots, slots, watch, probe, run, track>>
PollFail(why) ==
    /\ inflight > 0
    /\ why \in FetchErrors
    /\ inflight' = inflight - 1
    /\ timers' = ScheduleNext(timers)
    /\ sent' = NoSend /\ bcast' = <<>> /\ before' = <<>>
    /\ http' = NoHttp
    /\ UNCHANGED <<alt, gap, view>>
    /\ last' = Step("pollFail")
    /\ lastCycle' = CycleEnd("fail")
    /\ UNCHANGED <<REQUIRE_STABLE_READS, state, candidate, lastFetchOkAt, listening, clients,
                   snapshots, slots, watch, probe, run, track>>

\* ---- WebSocket clients ----
\* wss.on("connection"): the new client is in wss.clients, OPEN, and gets the snapshot
Connect(c) ==
    /\ listening
    /\ c \in slots
    /\ clients[c] = "none"
    /\ clients' = [clients EXCEPT ![c] = "open"]
    /\ sent' = [NoSend EXCEPT ![c] = <<SnapshotMsg(state)>>]
    /\ snapshots' = [snapshots EXCEPT ![c] = CountSnapshots(<<SnapshotMsg(state)>>)]
    /\ bcast' = <<>>
    /\ before' = <<>>
    /\ last' = Step("connect")
    /\ view' = IF probe = "view" /\ c = Subscriber
               THEN Apply(EmptyObj, <<SnapshotMsg(state)>>, 1) ELSE view
    /\ http' = NoHttp
    /\ UNCHANGED <<alt, gap>>
    /\ UNCHANGED <<REQUIRE_STABLE_READS, state, candidate, lastFetchOkAt, listening, timers,
                   inflight, slots, watch, probe, run, track, lastCycle>>

\* the client's readyState leaves OPEN (CLOSING, CLOSED); it is still in wss.clients
BeginClose(c) ==
    /\ clients[c] = "open"
    /\ clients' = [clients EXCEPT ![c] = "closing"]
    /\ sent' = NoSend /\ bcast' = <<>> /\ before' = <<>>
    /\ http' = NoHttp
    /\ view' = IF c = Subscriber THEN EmptyObj ELSE view
    /\ UNCHANGED <<alt, gap>>
    /\ last' = Step("beginClose")
    /\ UNCHANGED <<REQUIRE_STABLE_READS, state, candidate, lastFetchOkAt, listening, timers,
                   inflight, snapshots, slots, watch, probe, run, track, lastCycle>>

\* the socket's close event: the server drops the client from wss.clients
Disconnect(c) ==
    /\ clients[c] = "closing"
    /\ clients' = [clients EXCEPT ![c] = "none"]
    /\ snapshots' = [snapshots EXCEPT ![c] = 0]
    /\ sent' = NoSend /\ bcast' = <<>> /\ before' = <<>>
    /\ http' = NoHttp
    /\ UNCHANGED <<alt, gap, view>>
    /\ last' = Step("disconnect")
    /\ UNCHANGED <<REQUIRE_STABLE_READS, state, candidate, lastFetchOkAt, listening, timers,
                   inflight, slots, watch, probe, run, track, lastCycle>>

\* ---- HTTP handlers ----
Null == "<null>"

\* GET /health
HealthBody ==
    [ok |-> TRUE, lastFetchOkAt |-> lastFetchOkAt, keys |-> Cardinality(DOMAIN state)]

Health ==
    /\ listening
    /\ sent' = NoSend /\ bcast' = <<>> /\ before' = <<>>
    /\ http' = Exchange("GET /health", Undefined, Undefined, 200, HealthBody)
    /\ UNCHANGED <<alt, gap, view>>
    /\ last' = Step("get")
    /\ UNCHANGED <<REQUIRE_STABLE_READS, state, candidate, lastFetchOkAt, listening, timers,
                   inflight, clients, snapshots, slots, watch, probe, run, track, lastCycle>>

\* GET /state/:key
StateKeyBody(key) ==
    [key |-> key, value |-> IF Get(state, key) = Undefined THEN Null ELSE state[key]]

GetStateKey(key) ==
    /\ listening
    /\ sent' = NoSend /\ bcast' = <<>> /\ before' = <<>>
    /\ http' = Exchange("GET /state/:key", key, Undefined, 200, StateKeyBody(key))
    /\ UNCHANGED <<alt, gap, view>>
    /\ last' = Step("get")
    /\ UNCHANGED <<REQUIRE_STABLE_READS, state, candidate, lastFetchOkAt, listening, timers,
                   inflight, clients, snapshots, slots, watch, probe, run, track, lastCycle>>

\* GET /state
StateBody == [state |-> state]

GetState ==
    /\ listening
    /\ sent' = NoSend /\ bcast' = <<>> /\ before' = <<>>
    /\ http' = Exchange("GET /state", Undefined, Undefined, 200, StateBody)
    /\ UNCHANGED <<alt, gap, view>>
    /\ last' = Step("get")
    /\ UNCHANGED <<REQUIRE_STABLE_READS, state, candidate, lastFetchOkAt, listening, timers,
                   inflight, clients, snapshots, slots, watch, probe, run, track, lastCycle>>

\* JSON values of a request body: a type tag and the value's String()
JStr(s) == [t |-> "string", v |-> s]
JNum1 == [t |-> "number", v |-> "1"]
JNull == [t |-> "null", v |-> "null"]
JMissing == [t |-> "undefined", v |-> "undefined"]

\* !key is false
Truthy(j) == j.t \in {"string", "number"} /\ j.v # "" /\ j.v # "0"
\* (value ?? "").toString()
ToStr(j) == IF j.t \in {"null", "undefined"} THEN "" ELSE j.v

BodyKeys == {JStr(k) : k \in Keys} \cup {JStr(""), JNum1, JMissing}
BodyValues == {JStr(v) : v \in Values} \cup {JNum1, JNull, JMissing}
\* const { key, value } = req.body || {}: no body reads as both missing;
\* the key "__proto__" is tried with one value
Bodies == [key : BodyKeys, value : BodyValues]
              \cup {[key |-> JStr(ProtoKey), value |-> JStr("x")]}

\* if (!key || typeof key !== "string") return res.status(400)
BadKey(key) == ~Truthy(key) \/ key.t # "string"

\* POST /override
Override(body) ==
    LET key == body.key.v
        v == ToStr(body.value)
        prev == Read(state, key)
        st == IF prev # v THEN Assign(state, key, v) ELSE state
        msgs == IF prev # v THEN <<PatchMsg(Put(EmptyObj, key, v))>> ELSE <<>>
    IN /\ listening
       /\ last' = Step("override")
       /\ before' = <<>>
       /\ UNCHANGED alt
       /\ IF BadKey(body.key)
          THEN /\ sent' = NoSend /\ bcast' = <<>>
               /\ http' = Exchange("POST /override", body.key, body.value, 400,
                                   [error |-> "Missing key"])
               /\ UNCHANGED <<REQUIRE_STABLE_READS, state, candidate, lastFetchOkAt, listening,
                              timers, inflight, clients, snapshots, slots, watch, probe, run,
                              track, lastCycle, gap, view>>
          ELSE /\ state' = st
               /\ bcast' = msgs
               /\ sent' = broadcast(msgs)
               /\ snapshots' = Received(broadcast(msgs))
               /\ view' = ViewAfter(broadcast(msgs))
               /\ http' = Exchange("POST /override", body.key, body.value, 200,
                                   [ok |-> TRUE, key |-> key, value |-> Read(st, key)])
               /\ track' = IF key = watch THEN NoRun ELSE track
               /\ gap' = IF key = watch THEN NoGap ELSE gap
               /\ UNCHANGED <<REQUIRE_STABLE_READS, candidate, lastFetchOkAt, listening,
                              timers, inflight, clients, slots, watch, probe, run, lastCycle>>

Next ==
    \/ Listen
    \/ LoopStart
    \/ \E kv \in Decoded : PollOk(kv)
    \/ \E why \in FetchErrors : PollFail(why)
    \/ \E c \in Clients : Connect(c)
    \/ \E c \in Clients : BeginClose(c)
    \/ \E c \in Clients : Disconnect(c)
    \/ Health
    \/ \E key \in Keys : GetStateKey(key)
    \/ GetState
    \/ \E body \in Bodies : Override(body)

\* The specifications differ in what they record and in how many clients connect.
Init == InitWith(Keys, "step", {"c1"})
InitRun == InitWith(Keys, "run", {"c1"})
InitTrack == InitWith(Keys, "track", {"c1"})
InitCycle == InitWith(Keys, "cycle", {"c1"})
InitClients == InitWith({NoKey}, "before", Clients)
InitHttp == InitWith({NoKey}, "http", {"c1"})
InitAlt == InitWith({"a"}, "alt", {"c1"})
InitGap == InitWith({"a"}, "gap", {"c1"})
InitView == InitWith({NoKey}, "view", Clients)
InitLive == InitWith({"a"}, "cycle", {"c1"})

Spec == Init /\ [][Next]_vars
SpecRun == InitRun /\ [][Next]_vars
SpecTrack == InitTrack /\ [][Next]_vars
SpecCycle == InitCycle /\ [][Next]_vars
SpecClients == InitClients /\ [][Next]_vars
SpecHttp == InitHttp /\ [][Next]_vars
SpecAlt == InitAlt /\ [][Next]_vars
SpecGap == InitGap /\ [][Next]_vars
SpecView == InitView /\ [][Next]_vars

\* For liveness: a timer that is set fires (setTimeout).  Whether a fetch returns,
\* and how, is up to the network: no fairness is assumed for it.
SpecLive == InitLive /\ [][Next]_vars /\ WF_vars(LoopStart)

\* ======================= the claims =======================
T == REQUIRE_STABLE_READS
InPatch(msgs, k) == msgs # <<>> /\ msgs[1].op = "patch" /\ k \in DOMAIN msgs[1].body
CandOf(cand, k) == IF k \in DOMAIN cand THEN cand[k] ELSE NoCand
Changes(msgs) == IF msgs = <<>> THEN EmptyObj ELSE msgs[1].body
PollOkStep == last'.op = "pollOk"
Observed == last'.obs

\* C1: the poll path changes State[k] to v only if the T most recent decoded
\* observations of k, this cycle's included, all had the value v, and v differed
\* from State[k] when it was committed; no cycle commits a value seen fewer than
\* T times in a row.
C1_CommitOnlyAfterStableReads ==
    [][(PollOkStep /\ Get(state', watch) # Get(state, watch))
        => /\ Observed = state'[watch]
           /\ run'.value = state'[watch]
           /\ run'.n >= T]_vars

C1_Witness ==
    /\ last.op = "pollOk" /\ T >= 2
    /\ InPatch(bcast, watch)
    /\ run = [value |-> state[watch], n |-> T]

\* C2: from a state where k has no candidate and State[k] # v, T successful
\* cycles in a row that observe k = v, with no override of k in between, commit
\* k in the T-th cycle exactly: State[k] = v, no candidate for k, k = v in that
\* cycle's patch; the first T-1 cycles neither change State[k] nor broadcast k.
C2_CommitInTthCycle ==
    [][(PollOkStep /\ track'.n >= 1)
        => IF track'.n < T
           THEN /\ Get(state', watch) = Get(state, watch)
                /\ ~InPatch(bcast', watch)
                /\ candidate'[watch] = [value |-> track'.value, count |-> track'.n]
           ELSE /\ Get(state', watch) = track'.value
                /\ Get(state, watch) # track'.value
                /\ watch \notin DOMAIN candidate'
                /\ InPatch(bcast', watch)
                /\ bcast'[1].body[watch] = track'.value]_vars

C2_Witness ==
    /\ last.op = "pollOk" /\ T >= 2
    /\ track.n = T
    /\ Get(state, watch) = track.value
    /\ InPatch(bcast, watch)

\* C3: in a cycle that observes for k a value that differs from State[k], the
\* stability logic sets k's candidate to {observed, 1} when k has no candidate or
\* one with another value, and to the same value with the count increased by
\* exactly 1 when the existing candidate has the observed value; below T the
\* entry is what the cycle leaves in candidate.
C3_StagedEntry ==
    [][(PollOkStep /\ Observed \in Values /\ Observed # Get(state, watch))
        => /\ last'.staged =
                IF watch \notin DOMAIN candidate \/ candidate[watch].value # Observed
                THEN [value |-> Observed, count |-> 1]
                ELSE [value |-> Observed, count |-> candidate[watch].count + 1]
           /\ last'.staged.count < T => CandOf(candidate', watch) = last'.staged]_vars

\* a candidate with another value was replaced, and the count started again at 1
C3_Witness ==
    /\ last.op = "pollOk" /\ T >= 2
    /\ last.cand.count >= 1
    /\ last.cand.value # last.obs
    /\ last.staged = [value |-> last.obs, count |-> 1]
    /\ CandOf(candidate, watch) = last.staged

\* C4: a cycle that observes for k the value State[k] while k has a candidate with
\* count < T deletes the candidate, leaves State[k] as it is and has no k in a
\* patch; with the candidate gone, a later divergent observation starts at count 1.
C4_RevertCancels ==
    [][/\ (PollOkStep /\ Observed \in Values /\ Observed = Get(state, watch)
            /\ watch \in DOMAIN candidate /\ candidate[watch].count < T)
          => /\ watch \notin DOMAIN candidate'
             /\ Get(state', watch) = Get(state, watch)
             /\ ~InPatch(bcast', watch)
             /\ \A c \in Clients : sent'[c] = <<>> \/ watch \notin DOMAIN sent'[c][1].body
       /\ (PollOkStep /\ Observed \in Values /\ Observed # Get(state, watch)
            /\ watch \notin DOMAIN candidate)
          => last'.staged.count = 1]_vars

C4_Witness ==
    /\ last.op = "pollOk" /\ T >= 2
    /\ last.cand.count >= 1 /\ last.cand.count < T
    /\ last.obs \in Values /\ last.obs = Get(state, watch)
    /\ watch \notin DOMAIN candidate

\* C5: the set of keys of State never shrinks, whatever the step; a successful
\* cycle whose decoded mapping lacks k leaves State[k] as it is.
C5_KeysNeverRemoved ==
    [][/\ DOMAIN state \subseteq DOMAIN state'
       /\ (PollOkStep /\ Observed = Undefined) => Get(state', watch) = Get(state, watch)]_vars

C5_Witness ==
    /\ last.op = "pollOk"
    /\ last.obs = Undefined
    /\ watch \in DOMAIN state

\* C6: a connection gets one snapshot, at connection time, whose state mapping
\* is State at that instant, and no other step sends a snapshot; a snapshot
\* taken by a connection right after a cycle holds all of that cycle's commits,
\* and one taken while the fetch was pending, right before the cycle's commits,
\* holds none of them.
C6_SnapshotAtomic ==
    [][/\ \A c \in Clients : clients'[c] # "none" => snapshots'[c] = 1
       /\ last'.op = "connect"
          => /\ state' = state
             /\ \E c \in Clients :
                   /\ clients[c] = "none" /\ clients'[c] = "open"
                   /\ sent' = [NoSend EXCEPT ![c] = <<[op |-> "snapshot", body |-> state]>>]
       /\ last'.op # "connect"
          => \A c \in Clients : \A i \in DOMAIN sent'[c] : sent'[c][i].op # "snapshot"
       /\ (last.op = "pollOk" /\ last'.op = "connect")
          => \A c \in Clients : sent'[c] # <<>>
                => \A k \in DOMAIN Changes(bcast) :
                      Get(sent'[c][1].body, k) = Changes(bcast)[k]
       /\ (last.op = "connect" /\ last'.op = "pollOk")
          => \A c \in Clients : sent[c] # <<>>
                => \A k \in DOMAIN Changes(bcast') :
                      Get(sent[c][1].body, k) # Changes(bcast')[k]]_vars

\* a client connected while the fetch was pending; the cycle then committed two keys
C6_Witness ==
    /\ last.op = "pollOk"
    /\ Cardinality(DOMAIN Changes(bcast)) = 2 /\ T >= 2
    /\ \E c \in DOMAIN before :
          /\ clients[c] = "open" /\ snapshots[c] = 1
          /\ before[c].op = "snapshot"
          /\ \A k \in DOMAIN Changes(bcast) : Get(before[c].body, k) # state[k]
          /\ sent[c] = bcast

\* C7: a successful cycle broadcasts at most one patch: one exactly when it
\* committed a key, with exactly the keys whose State value the cycle changed,
\* each with its new State value, delivered once to every open client and to no
\* other; a cycle that commits nothing sends nothing.
C7_OnePatchPerCycle ==
    [][PollOkStep
        => LET changed == {k \in Keys : Get(state', k) # Get(state, k)}
           IN /\ bcast' = IF changed = {} THEN <<>>
                          ELSE <<[op |-> "patch", body |-> [k \in changed |-> state'[k]]]>>
              /\ \A c \in Clients :
                    sent'[c] = IF clients[c] = "open" THEN bcast' ELSE <<>>]_vars

\* a sparse patch: one of the two keys of State committed, to an open client
C7_Witness ==
    /\ last.op = "pollOk"
    /\ Cardinality(DOMAIN Changes(bcast)) = 1
    /\ Cardinality(DOMAIN state) = 2
    /\ \E c \in Clients : clients[c] = "open" /\ sent[c] = bcast
    /\ \E c \in Clients : clients[c] = "closing" /\ sent[c] = <<>>

\* C8: with State[k] = v, a successful cycle that observes k = v leaves
\* State[k] = v, leaves k without a candidate and has no k in a patch; the steps
\* between the cycles (all but a successful poll and an override) change neither
\* State[k] nor k's candidate, so this repeats for any number of cycles.
C8_CommittedValueIdempotent ==
    [][/\ (PollOkStep /\ Observed \in Values /\ Observed = Get(state, watch))
          => /\ Get(state', watch) = Observed
             /\ watch \notin DOMAIN candidate'
             /\ ~InPatch(bcast', watch)
       /\ last'.op \notin {"pollOk", "override"}
          => /\ Get(state', watch) = Get(state, watch)
             /\ CandOf(candidate', watch) = CandOf(candidate, watch)]_vars

C8_Witness ==
    /\ last.op = "pollOk"
    /\ last.obs \in Values /\ last.obs = Get(state, watch)
    /\ last.cand = NoCand /\ last.staged = NoCand
    /\ watch \notin DOMAIN candidate
    /\ bcast = <<>>

\* C9: a cycle whose fetch fails leaves State and every candidate entry as they
\* were and sends nothing; a candidate at count T-1 is therefore still at T-1,
\* and the next successful cycle, if it observes the candidate's value, makes it
\* State[k], removes the candidate and broadcasts k unless State[k] was already
\* that value.
C9_FailedCycleChangesNothing ==
    [][/\ last'.op = "pollFail"
          => /\ state' = state /\ candidate' = candidate
             /\ lastFetchOkAt' = lastFetchOkAt
             /\ sent' = NoSend /\ bcast' = <<>>
       /\ (PollOkStep /\ lastCycle = "fail" /\ watch \in DOMAIN candidate
            /\ candidate[watch].count = T - 1 /\ Observed = candidate[watch].value)
          => /\ Get(state', watch) = Observed
             /\ watch \notin DOMAIN candidate'
             /\ Get(state, watch) # Observed
                => InPatch(bcast', watch) /\ bcast'[1].body[watch] = Observed]_vars

C9_Witness ==
    /\ last.op = "pollOk" /\ T >= 2
    /\ lastCycle = "okAfterFail"
    /\ last.cand = [value |-> last.obs, count |-> T - 1]
    /\ InPatch(bcast, watch)
    /\ state[watch] = last.obs

\* C10: at most one cycle is in progress, and once the server listens there is
\* always exactly one cycle either in progress or scheduled; a timer is set only
\* by the end of a cycle (successful or failed), one per finished cycle; a cycle
\* starts only when none is in progress, so while a fetch is pending no step
\* starts another and a fetch that never returns is the last cycle.
C10_CyclesNeverOverlap ==
    [][/\ inflight' <= 1
       /\ timers' + inflight' = (IF listening' THEN 1 ELSE 0)
       /\ last'.op \in {"pollOk", "pollFail"}
          => timers' = timers + 1 /\ inflight' = inflight - 1
       /\ timers' > timers => last'.op \in {"pollOk", "pollFail"}
       /\ inflight' > inflight
          => inflight = 0 /\ last'.op \in {"listen", "loopStart"}
       /\ inflight >= 1 => last'.op \notin {"listen", "loopStart"}]_vars

\* a connection handled while the fetch of a later cycle is pending
C10_Witness ==
    /\ inflight = 1 /\ timers = 0
    /\ lastFetchOkAt = "ts"
    /\ last.op = "connect"

\* C11: POST /override answers 400 exactly when key is missing (absent, or the
\* empty string that the handler also reports as "Missing key") or not a string,
\* and then changes neither State nor candidate and broadcasts nothing; otherwise
\* it sets State[key] to the given value at once, with no stability count,
\* broadcasts one patch {key: value} if and only if the value differs from the
\* previous State[key], and responds with the resulting State[key].
C11_OverrideContract ==
    [][http'.path = "POST /override"
        => LET key == http'.key
               given == IF http'.value.t \in {"null", "undefined"} THEN ""
                        ELSE http'.value.v
               missing == key.t = "undefined" \/ (key.t = "string" /\ key.v = "")
           IN IF missing \/ key.t # "string"
              THEN /\ http'.status = 400
                   /\ state' = state /\ candidate' = candidate
                   /\ bcast' = <<>> /\ sent' = NoSend
              ELSE /\ http'.status = 200
                   /\ key.v \in DOMAIN state' /\ state'[key.v] = given
                   /\ candidate' = candidate
                   /\ bcast' = IF Get(state, key.v) # given
                               THEN <<[op |-> "patch", body |-> Put(EmptyObj, key.v, given)]>>
                               ELSE <<>>
                   /\ \A c \in Clients :
                         sent'[c] = IF clients[c] = "open" THEN bcast' ELSE <<>>
                   /\ http'.body.value = state'[key.v]]_vars

\* C12: in every reachable state, whatever the interleaving of poll cycles,
\* overrides and connection events, the value of a key's candidate entry differs
\* from the key's current State value.
C12_CandidateDiffersFromState ==
    \A k \in DOMAIN candidate : candidate[k].value # Get(state, k)

\* C13: State and candidate are changed by the poll cycle only: no step of a
\* connection, a disconnection or an HTTP handler (GET /health, GET /state,
\* GET /state/:key, POST /override) changes either mapping, and a cycle changes
\* them only in the one step that follows the return of its fetch.
C13_OnlyPollMutates ==
    [][(state' # state \/ candidate' # candidate)
        => last'.op = "pollOk" /\ inflight = 1 /\ inflight' = 0]_vars

\* C13, amended: candidate is changed by the poll cycle only, State by the poll
\* cycle and by POST /override only (an override changes at most the State value
\* of its key); connections, disconnections and the GET handlers change neither;
\* a cycle changes them only in the one step that follows the return of its fetch.
C13_PollAndOverrideMutate ==
    [][/\ candidate' # candidate => last'.op = "pollOk"
       /\ state' # state => last'.op \in {"pollOk", "override"}
       /\ (last'.op = "override" /\ state' # state)
          => /\ http'.status = 200
             /\ \A k \in DOMAIN state' \ {http'.key.v} : Get(state, k) = state'[k]
       /\ http'.path \in {"GET /health", "GET /state", "GET /state/:key"}
          => state' = state /\ candidate' = candidate
       /\ last'.op = "pollOk" => inflight = 1 /\ inflight' = 0]_vars

\* an override has changed State while a candidate was staged, and left it staged
C13_Witness ==
    /\ http.path = "POST /override" /\ http.status = 200
    /\ bcast # <<>>
    /\ http.key.v \in DOMAIN state /\ http.key.v \in DOMAIN candidate

\* C14: a key that State does not have is not taken to be equal to "": a cycle
\* that observes k = "" for such a key stages it ({value: "", count: 1} when k
\* has no candidate, so for T >= 2 that entry is left in candidate and nothing is
\* committed); the observation that brings the count to T commits State[k] = ""
\* and broadcasts k = ""; once State[k] is "", observing "" does nothing.
C14_AbsentIsNotEmpty ==
    [][/\ (PollOkStep /\ Observed = "" /\ watch \notin DOMAIN state)
          => /\ last'.staged.value = ""
             /\ last'.staged.count =
                   IF watch \in DOMAIN candidate /\ candidate[watch].value = ""
                   THEN candidate[watch].count + 1 ELSE 1
             /\ IF last'.staged.count < T
                THEN /\ CandOf(candidate', watch) = last'.staged
                     /\ watch \notin DOMAIN state'
                     /\ ~InPatch(bcast', watch)
                ELSE /\ watch \in DOMAIN state' /\ state'[watch] = ""
                     /\ watch \notin DOMAIN candidate'
                     /\ InPatch(bcast', watch) /\ bcast'[1].body[watch] = ""
       /\ (PollOkStep /\ Observed = "" /\ Get(state, watch) = "")
          => /\ state'[watch] = ""
             /\ last'.staged = NoCand
             /\ watch \notin DOMAIN candidate'
             /\ ~InPatch(bcast', watch)]_vars

\* the T-th observation of "" for a key that State did not have committed it
C14_Witness ==
    /\ last.op = "pollOk" /\ T >= 2
    /\ last.obs = ""
    /\ last.cand = [value |-> "", count |-> T - 1]
    /\ last.staged = [value |-> "", count |-> T]
    /\ watch \in DOMAIN state /\ state[watch] = ""
    /\ InPatch(bcast, watch) /\ bcast[1].body[watch] = ""

\* C15: in every state between steps every candidate entry has a count from 1
\* to T-1; a key that a cycle commits has no candidate entry when the cycle ends;
\* with T = 1 candidate is empty after every step.
C15_CandidateCountBelowT ==
    [][/\ \A k \in DOMAIN candidate' :
             candidate'[k].count >= 1 /\ candidate'[k].count <= T - 1
       /\ PollOkStep
          => \A k \in Keys : Get(state', k) # Get(state, k) => k \notin DOMAIN candidate'
       /\ T = 1 => candidate' = EmptyObj]_vars

\* a cycle committed watch and left the other key staged, at count T-1
C15_Witness ==
    /\ last.op = "pollOk" /\ T >= 2
    /\ last.staged.count = T
    /\ InPatch(bcast, watch) /\ state[watch] = last.obs
    /\ watch \notin DOMAIN candidate
    /\ \E k \in DOMAIN candidate : candidate[k].count = T - 1

\* C16: for T >= 2, while the observations of k in successive successful cycles
\* alternate between two values, each different from State[k] when it is
\* observed, k is not committed and is in no patch, however often the two values
\* have been seen by then: every flip leaves k's candidate at count 1.
C16_AlternationNeverCommits ==
    [][(PollOkStep /\ T >= 2 /\ Observed \in Values /\ alt'.n >= 2)
        => /\ Observed = alt'.a /\ Observed # alt'.b
           /\ Get(state', watch) = Get(state, watch)
           /\ Get(state', watch) # Observed
           /\ ~InPatch(bcast', watch)
           /\ CandOf(candidate', watch) = [value |-> Observed, count |-> 1]]_vars

\* x, y, x, y, ...: each of the two values seen T times, and nothing committed
C16_Witness ==
    /\ last.op = "pollOk" /\ T >= 2
    /\ alt.n >= 2 * T
    /\ last.obs = alt.a
    /\ watch \notin DOMAIN state
    /\ CandOf(candidate, watch) = [value |-> alt.a, count |-> 1]

\* C17: a broadcast (the patch of a poll cycle or of an override) is delivered,
\* once, to exactly the clients that are open when it is made; a client that is
\* closing or gone gets nothing from it, and nothing later: no step other than
\* the broadcasting one delivers a patch, so nothing is queued or retried, and a
\* client that connects afterwards gets its snapshot only.
C17_BroadcastToOpenOnly ==
    [][/\ Len(bcast') <= 1
       /\ bcast' # <<>> => bcast'[1].op = "patch" /\ last'.op \in {"pollOk", "override"}
       /\ \A c \in Clients :
             /\ clients[c] = "open" => sent'[c] = bcast'
             /\ clients[c] \in {"closing", "none"} /\ last'.op # "connect" => sent'[c] = <<>>
             /\ \A i \in DOMAIN sent'[c] :
                   sent'[c][i].op = "patch" => clients[c] = "open" /\ sent'[c] = bcast'
       /\ last'.op = "connect"
          => \A c \in Clients : Len(sent'[c]) <= 1
                /\ \A i \in DOMAIN sent'[c] : sent'[c][i].op = "snapshot"]_vars

\* an override's patch went to the open client and not to the closing one
C17_Witness ==
    /\ last.op = "override"
    /\ bcast # <<>>
    /\ \E c \in Clients : clients[c] = "open" /\ sent[c] = bcast
    /\ \E c \in Clients : clients[c] = "closing" /\ sent[c] = <<>>

\* C18: a subscriber that stays open from its connection on and applies its
\* snapshot and then every patch it receives, in order, holds a view equal to
\* State after every step, whatever the interleaving of poll cycles, overrides and
\* other connections; every change of State after its snapshot reaches it in
\* exactly one patch, and no patch repeats what its view already holds.
C18_ViewEqualsState ==
    [][clients'[Subscriber] = "open"
        => /\ view' = state'
           /\ clients[Subscriber] = "open"
              => LET got == sent'[Subscriber]
                     changed == {k \in DOMAIN state' : Get(state, k) # state'[k]}
                 IN /\ Len(got) <= 1
                    /\ changed # {}
                       => /\ got # <<>> /\ got[1].op = "patch"
                          /\ got[1].body = [k \in changed |-> state'[k]]
                    /\ got # <<>>
                       => \A k \in DOMAIN got[1].body : Get(view, k) # got[1].body[k]]_vars

\* C19: if fetches succeed again and again (so every fetch returns) and, from
\* some point on, every successful cycle observes k = v and no override changes
\* State[k], then eventually State[k] = v for good; a failed cycle in between
\* changes neither State nor candidate, so it delays the commit without
\* resetting the count reached.
C19_EventuallyCommitted ==
    /\ [][last'.op = "pollFail" => state' = state /\ candidate' = candidate]_vars
    /\ \A v \in Values :
          (/\ []<><<PollOkStep>>_vars
           /\ <>[][/\ PollOkStep => Observed = v
                   /\ last'.op = "override" => Get(state', watch) = Get(state, watch)]_vars)
          => <>[](Get(state, watch) = v)

\* the commit came in the successful cycle after a failed one, from count T-1
C19_Witness ==
    /\ last.op = "pollOk" /\ lastCycle = "okAfterFail" /\ T >= 2
    /\ last.cand.count = T - 1 /\ last.staged.count = T
    /\ candidate = EmptyObj
    /\ Get(state, watch) = last.obs
    /\ bcast = <<[op |-> "patch", body |-> Put(EmptyObj, watch, last.obs)]>>

\* C20: a successful cycle whose decoded mapping has no key k leaves k's
\* candidate entry, value and count, as it was (and State[k] too), so the T
\* observations that commit k need not come from adjacent cycles: k = v, cycles
\* without k, k = v again commits k in that last cycle when T = 2 (in general:
\* the T-th observation of v commits, whatever cycles without k lie in between).
C20_MissingKeyKeepsCandidate ==
    [][/\ (PollOkStep /\ Observed = Undefined)
          => /\ CandOf(candidate', watch) = CandOf(candidate, watch)
             /\ Get(state', watch) = Get(state, watch)
             /\ ~InPatch(bcast', watch)
       /\ (PollOkStep /\ Observed \in Values /\ gap'.n >= 1 /\ gap'.skipped = 1)
          => IF gap'.n < T
             THEN CandOf(candidate', watch) = [value |-> gap'.value, count |-> gap'.n]
             ELSE /\ Get(state', watch) = gap'.value
                  /\ Get(state, watch) # gap'.value
                  /\ watch \notin DOMAIN candidate'
                  /\ InPatch(bcast', watch) /\ bcast'[1].body[watch] = gap'.value]_vars

\* T = 2: k = v, a cycle without k, k = v: committed
C20_Witness ==
    /\ last.op = "pollOk" /\ T = 2
    /\ gap.n = 2 /\ gap.skipped = 1
    /\ last.obs = gap.value
    /\ Get(state, watch) = gap.value
    /\ InPatch(bcast, watch)

====
